---- MODULE Spec2Model ----
(***************************************************************************)
(* Model of the Petstore MCP bridge: the dispatcher call_tool (server.py), *)
(* the API client PetstoreClient (client.py) and its text formatters.      *)
(*                                                                         *)
(* JSON / Python values are tagged tuples so that values of different      *)
(* Python types can be compared:                                           *)
(*   <<"None">>  <<"str", s>>  <<"int", n>>  <<"bool", b>>                 *)
(*   <<"list", <<v1, ...>> >>   <<"dict", << <<k1, v1>>, ... >> >>         *)
(* A dict keeps its keys in insertion order, as a Python dict does.        *)
(* A text is a sequence of string segments; Flat gives the string itself.  *)
(***************************************************************************)
EXTENDS Integers, Sequences, FiniteSets, TLC

VARIABLES calls, base_url, timeout

vars == <<calls, base_url, timeout>>

(***************************************************************************)
(* Bounds                                                                  *)
(***************************************************************************)
NumCalls == 2

MaxPetId == 2

MaxTags == 2

(***************************************************************************)
(* Python values                                                           *)
(***************************************************************************)
None == <<"None">>

S(s) == <<"str", s>>

I(n) == <<"int", n>>

B(b) == <<"bool", b>>

L(seq) == <<"list", seq>>

D(pairs) == <<"dict", pairs>>

TypeOf(v) == v[1]

IsDict(v) == TypeOf(v) = "dict"

IsList(v) == TypeOf(v) = "list"

IsStr(v) == TypeOf(v) = "str"

\* Python's name of the type of v, as it appears in exception messages
TypeName(v) ==
    CASE TypeOf(v) = "None" -> "NoneType"
      [] TypeOf(v) = "bool" -> "bool"
      [] TypeOf(v) = "int"  -> "int"
      [] TypeOf(v) = "str"  -> "str"
      [] TypeOf(v) = "list" -> "list"
      [] TypeOf(v) = "dict" -> "dict"

\* bool(v)
Truthy(v) ==
    CASE TypeOf(v) = "None" -> FALSE
      [] TypeOf(v) = "bool" -> v[2]
      [] TypeOf(v) = "int"  -> v[2] # 0
      [] TypeOf(v) = "str"  -> v[2] # ""
      [] TypeOf(v) = "list" -> Len(v[2]) > 0
      [] TypeOf(v) = "dict" -> Len(v[2]) > 0

\* k in d
Has(d, k) == \E i \in 1..Len(d[2]) : d[2][i][1] = k

\* d.get(k, dflt): the default is used only when the key is missing
Get(d, k, dflt) ==
    IF Has(d, k)
    THEN d[2][CHOOSE i \in 1..Len(d[2]) : d[2][i][1] = k][2]
    ELSE dflt

\* d[k] = v on a dict that has no key k yet
Put(d, k, v) == D(Append(d[2], <<k, v>>))

RECURSIVE JoinStrings(_, _)
\* sep.join(strs) for a sequence of TLA+ strings
JoinStrings(sep, strs) ==
    IF Len(strs) = 0 THEN ""
    ELSE IF Len(strs) = 1 THEN strs[1]
    ELSE strs[1] \o sep \o JoinStrings(sep, Tail(strs))

RECURSIVE PyRepr(_)
\* repr(v)
PyRepr(v) ==
    CASE TypeOf(v) = "None" -> "None"
      [] TypeOf(v) = "bool" -> IF v[2] THEN "True" ELSE "False"
      [] TypeOf(v) = "int"  -> ToString(v[2])
      [] TypeOf(v) = "str"  -> "'" \o v[2] \o "'"
      [] TypeOf(v) = "list" ->
            "[" \o JoinStrings(", ", [i \in 1..Len(v[2]) |-> PyRepr(v[2][i])]) \o "]"
      [] TypeOf(v) = "dict" ->
            "{" \o JoinStrings(", ", [i \in 1..Len(v[2]) |->
                     "'" \o v[2][i][1] \o "': " \o PyRepr(v[2][i][2])]) \o "}"

\* str(v), which is what an f-string placeholder renders
PyStr(v) == IF TypeOf(v) = "str" THEN v[2] ELSE PyRepr(v)

RECURSIVE Flat(_)
\* the string a text (sequence of segments) stands for
Flat(text) == IF Len(text) = 0 THEN "" ELSE text[1] \o Flat(Tail(text))

(***************************************************************************)
(* Control outcomes of a piece of Python code                              *)
(***************************************************************************)
Val(v) == [k |-> "value", v |-> v]

Raise(msg) == [k |-> "raise", msg |-> msg]

IsRaise(o) == o.k = "raise"

\* v.get(...) on a value that is not a dict
AttributeErrorGet(v) == Raise("'" \o TypeName(v) \o "' object has no attribute 'get'")

(***************************************************************************)
(* Formatter (client.py 129-171)                                           *)
(***************************************************************************)
RECURSIVE JoinValues(_, _, _)
\* sep.join(items): items must all be str; i is the index of items[1] in
\* the original sequence (Python reports it in the TypeError)
JoinValues(sep, items, i) ==
    IF Len(items) = 0 THEN Val("")
    ELSE IF ~IsStr(items[1])
    THEN Raise("sequence item " \o ToString(i) \o ": expected str instance, "
               \o TypeName(items[1]) \o " found")
    ELSE IF Len(items) = 1 THEN Val(items[1][2])
    ELSE LET rest == JoinValues(sep, Tail(items), i + 1)
         IN  IF IsRaise(rest) THEN rest
             ELSE Val(items[1][2] \o sep \o rest.v)

\* pet.get("category", {}).get("name", "Unknown") if pet.get("category") else "Unknown"
PetCategory(pet) ==
    IF ~IsDict(pet) THEN AttributeErrorGet(pet)
    ELSE LET c == Get(pet, "category", None)
         IN  IF ~Truthy(c) THEN Val(S("Unknown"))
             ELSE IF ~IsDict(c) THEN AttributeErrorGet(c)
             ELSE Val(Get(c, "name", S("Unknown")))

RECURSIVE TagNameList(_)
\* [tag.get("name", "") for tag in tags] over a list of tags
TagNameList(tags) ==
    IF Len(tags) = 0 THEN Val(<<>>)
    ELSE IF ~IsDict(tags[1]) THEN AttributeErrorGet(tags[1])
    ELSE LET rest == TagNameList(Tail(tags))
         IN  IF IsRaise(rest) THEN rest
             ELSE Val(<<Get(tags[1], "name", S(""))>> \o rest.v)

\* ", ".join([tag.get("name", "") for tag in pet.get("tags", [])])
PetTags(pet) ==
    IF ~IsDict(pet) THEN AttributeErrorGet(pet)
    ELSE LET t == Get(pet, "tags", L(<<>>))
         IN  IF ~IsList(t)
             THEN Raise("'" \o TypeName(t) \o "' object is not iterable")
             ELSE LET names == TagNameList(t[2])
                  IN  IF IsRaise(names) THEN names
                      ELSE JoinValues(", ", names.v, 0)

\* ", ".join(pet.get("photoUrls", []))
PetPhotos(pet) ==
    IF ~IsDict(pet) THEN AttributeErrorGet(pet)
    ELSE LET p == Get(pet, "photoUrls", L(<<>>))
         IN  IF ~IsList(p) THEN Raise("can only join an iterable")
             ELSE JoinValues(", ", p[2], 0)

\* x or 'None' for a joined string x
OrNone(x) == IF x = "" THEN "None" ELSE x

\* the bullet that starts a line of the pets list (three non-ASCII
\* characters and a space in the source; an ASCII stand-in here)
Bullet == "* "

\* one line of format_pets_list
PetLine(pet) ==
    LET category == PetCategory(pet)
        tags     == PetTags(pet)
    IN  IF IsRaise(category) THEN category
        ELSE IF IsRaise(tags) THEN tags
        ELSE Val(<<Bullet, PyStr(Get(pet, "name", S("Unnamed"))),
                   " (ID: ", PyStr(Get(pet, "id", None)),
                   ") - ", PyStr(category.v),
                   " - Status: ", PyStr(Get(pet, "status", None)),
                   " - Tags: ", OrNone(tags.v)>>)

RECURSIVE PetLines(_)
\* the loop of format_pets_list and its "\\n".join (a backslash and an n)
PetLines(pets) ==
    LET line == PetLine(pets[1])
    IN  IF IsRaise(line) THEN line
        ELSE IF Len(pets) = 1 THEN line
        ELSE LET rest == PetLines(Tail(pets))
             IN  IF IsRaise(rest) THEN rest
                 ELSE Val(line.v \o <<"\\n">> \o rest.v)

format_pets_list(pets) ==
    IF ~Truthy(pets) THEN Val(<<"No pets found.">>)
    ELSE IF IsDict(pets) THEN AttributeErrorGet(S(pets[2][1][1]))
    ELSE IF ~IsList(pets)
    THEN Raise("'" \o TypeName(pets) \o "' object is not iterable")
    ELSE PetLines(pets[2])

format_pet_details(pet) ==
    LET category == PetCategory(pet)
        tags     == PetTags(pet)
        photos   == PetPhotos(pet)
    IN  IF IsRaise(category) THEN category
        ELSE IF IsRaise(tags) THEN tags
        ELSE IF IsRaise(photos) THEN photos
        ELSE Val(<<"Name: ", PyStr(Get(pet, "name", S("Unnamed"))),
                   "\nID: ", PyStr(Get(pet, "id", None)),
                   "\nCategory: ", PyStr(category.v),
                   "\nStatus: ", PyStr(Get(pet, "status", None)),
                   "\nTags: ", OrNone(tags.v),
                   "\nPhotos: ", OrNone(photos.v)>>)

format_order_details(order) ==
    IF ~IsDict(order) THEN AttributeErrorGet(order)
    ELSE Val(<<"Order ID: ", PyStr(Get(order, "id", None)),
               "\nPet ID: ", PyStr(Get(order, "petId", None)),
               "\nQuantity: ", PyStr(Get(order, "quantity", None)),
               "\nStatus: ", PyStr(Get(order, "status", None)),
               "\nShip Date: ", PyStr(Get(order, "shipDate", S("Not set"))),
               "\nComplete: ", PyStr(Get(order, "complete", B(FALSE)))>>)

DefaultUserStatus == 1

format_user_details(user) ==
    IF ~IsDict(user) THEN AttributeErrorGet(user)
    ELSE Val(<<"Username: ", PyStr(Get(user, "username", None)),
               "\nName: ", PyStr(Get(user, "firstName", S(""))),
               " ", PyStr(Get(user, "lastName", S(""))),
               "\nEmail: ", PyStr(Get(user, "email", S("Not provided"))),
               "\nPhone: ", PyStr(Get(user, "phone", S("Not provided"))),
               "\nRole: ", PyStr(Get(user, "role", S("customer"))),
               "\nStatus: ", PyStr(Get(user, "userStatus", I(DefaultUserStatus)))>>)

(***************************************************************************)
(* API client (client.py 15-127)                                           *)
(***************************************************************************)
\* the body of a 2xx response that is not JSON
Malformed == <<"malformed">>

Response(status, body) == [kind |-> "response", status |-> status, body |-> body]

Fault(what) == [kind |-> "fault", what |-> what]

\* url, headers and the arguments of client.request (client.py 36-50)
BuildRequest(base, tmo, method, endpoint, auth_token, params, json_data) ==
    [method  |-> method,
     url     |-> base \o "/api/v3" \o endpoint,
     headers |-> IF Truthy(auth_token)
                 THEN D(<< <<"Authorization", S("Bearer " \o PyStr(auth_token))>> >>)
                 ELSE D(<<>>),
     params  |-> params,
     json    |-> json_data,
     timeout |-> tmo]

\* make_request_result that hands the status of a failed request to the caller
make_request_result_Detail(answer) ==
    IF answer.kind = "fault" THEN None
    ELSE IF answer.status = 200 \/ answer.status = 201
    THEN IF answer.body = Malformed THEN None ELSE answer.body
    ELSE IF answer.status = 404 THEN None
    ELSE D(<< <<"error", I(answer.status)>> >>)

\* what _make_request returns for the backend's answer (client.py 52-62)
make_request_result(answer) ==
    IF answer.kind = "fault" THEN None
    ELSE IF answer.status = 200 \/ answer.status = 201
    THEN IF answer.body = Malformed THEN None ELSE answer.body
    ELSE IF answer.status = 404 THEN None
    ELSE None

\* a client method that suspends at the HTTP round trip; orEmpty is the
\* method's "result or []"
Await(req, orEmpty) == [k |-> "await", req |-> req, orEmpty |-> orEmpty]

\* search_pets_by_status without the anonymous shortcut
search_pets_by_status_NoShortcut(base, tmo, status, auth_token) ==
    Await(BuildRequest(base, tmo, "GET", "/pet/findByStatus", auth_token,
                       D(<< <<"status", status>> >>), None), TRUE)

search_pets_by_status(base, tmo, status, auth_token) ==
    IF ~Truthy(auth_token) THEN Val(L(<<>>))
    ELSE Await(BuildRequest(base, tmo, "GET", "/pet/findByStatus", auth_token,
                            D(<< <<"status", status>> >>), None), TRUE)

search_pets_by_tags(base, tmo, tags, auth_token) ==
    IF ~Truthy(auth_token) THEN Val(L(<<>>))
    ELSE IF ~IsList(tags) THEN Raise("can only join an iterable")
    ELSE LET tags_param == JoinValues(",", tags[2], 0)
         IN  IF IsRaise(tags_param) THEN tags_param
             ELSE Await(BuildRequest(base, tmo, "GET", "/pet/findByTags", auth_token,
                                     D(<< <<"tags", S(tags_param.v)>> >>), None), TRUE)

\* get_pet_by_id that raises on a missing token instead of returning None
get_pet_by_id_Raises(base, tmo, pet_id, auth_token) ==
    IF ~Truthy(auth_token) THEN Raise("auth_token is required")
    ELSE Await(BuildRequest(base, tmo, "GET", "/pet/" \o PyStr(pet_id), auth_token,
                            None, None), FALSE)

\* get_pet_by_id that falls back to a default token when it gets none
get_pet_by_id_DefaultToken(base, tmo, pet_id, auth_token) ==
    Await(BuildRequest(base, tmo, "GET", "/pet/" \o PyStr(pet_id),
                       IF Truthy(auth_token) THEN auth_token ELSE S("demo"),
                       None, None), FALSE)

get_pet_by_id(base, tmo, pet_id, auth_token) ==
    IF ~Truthy(auth_token) THEN Val(None)
    ELSE Await(BuildRequest(base, tmo, "GET", "/pet/" \o PyStr(pet_id), auth_token,
                            None, None), FALSE)

get_store_inventory(base, tmo, auth_token) ==
    Await(BuildRequest(base, tmo, "GET", "/store/inventory", auth_token, None, None), FALSE)

get_order_by_id(base, tmo, order_id, auth_token) ==
    Await(BuildRequest(base, tmo, "GET", "/store/order/" \o PyStr(order_id), auth_token,
                       None, None), FALSE)

OrderQuantity == 1

\* OrderData that always writes the shipDate key
OrderData_AlwaysShipDate(pet_id, ship_date) ==
    D(<< <<"petId", pet_id>>, <<"quantity", I(OrderQuantity)>>,
         <<"status", S("placed")>>, <<"complete", B(FALSE)>>,
         <<"shipDate", ship_date>> >>)

\* order_data of place_order (client.py 101-109)
OrderData(pet_id, ship_date) ==
    LET order_data == D(<< <<"petId", pet_id>>, <<"quantity", I(OrderQuantity)>>,
                           <<"status", S("placed")>>, <<"complete", B(FALSE)>> >>)
    IN  IF Truthy(ship_date) THEN Put(order_data, "shipDate", ship_date)
        ELSE order_data

place_order(base, tmo, pet_id, auth_token, ship_date) ==
    Await(BuildRequest(base, tmo, "POST", "/store/order", auth_token, None,
                       OrderData(pet_id, ship_date)), FALSE)

login_user(base, tmo, username, password) ==
    Await(BuildRequest(base, tmo, "GET", "/user/login", None,
                       D(<< <<"username", username>>, <<"password", password>> >>),
                       None), FALSE)

get_user_profile(base, tmo, username, auth_token) ==
    Await(BuildRequest(base, tmo, "GET", "/user/" \o PyStr(username), auth_token,
                       None, None), FALSE)

create_user(base, tmo, user_data) ==
    Await(BuildRequest(base, tmo, "POST", "/user", None, None, user_data), FALSE)

add_pet(base, tmo, pet_data, auth_token) ==
    Await(BuildRequest(base, tmo, "POST", "/pet", auth_token, None, pet_data), FALSE)

(***************************************************************************)
(* Dispatcher (server.py 239-332)                                          *)
(***************************************************************************)
\* the operation descriptors of list_tools (server.py 26-237): the name, the
\* properties and the required list of each inputSchema
Tool(name, properties, required) ==
    [name |-> name, properties |-> properties, required |-> required]

list_tools ==
    << Tool("search_pets_by_status", <<"status">>, <<"status">>),
       Tool("search_pets_by_tags", <<"tags">>, <<"tags">>),
       Tool("get_pet_by_id", <<"pet_id">>, <<"pet_id">>),
       Tool("get_store_inventory", <<"auth_token">>, <<"auth_token">>),
       Tool("get_order_by_id", <<"order_id", "auth_token">>, <<"order_id", "auth_token">>),
       Tool("place_order", <<"pet_id", "ship_date", "auth_token">>,
            <<"pet_id", "auth_token">>),
       Tool("login_user", <<"username", "password">>, <<"username", "password">>),
       Tool("get_user_profile", <<"username", "auth_token">>, <<"username", "auth_token">>),
       Tool("create_user",
            <<"username", "password", "email", "first_name", "last_name", "phone">>,
            <<"username", "password">>),
       Tool("add_pet",
            <<"name", "category_name", "status", "photo_urls", "tag_names", "auth_token">>,
            <<"name", "auth_token">>) >>

CatalogNames == {list_tools[i].name : i \in 1..Len(list_tools)}

\* the descriptor of a catalog name
Descriptor(name) ==
    list_tools[CHOOSE i \in 1..Len(list_tools) : list_tools[i].name = name]

\* the "required" list of the descriptor of a name
Required(name) == IF name \in CatalogNames THEN Descriptor(name).required ELSE <<>>

\* the names the if/elif chain of call_tool compares with (server.py 243-314)
ToolNames == {"search_pets_by_status", "search_pets_by_tags", "get_pet_by_id",
              "get_store_inventory", "get_order_by_id", "place_order",
              "login_user", "get_user_profile", "create_user", "add_pet"}

Ret(text) == [k |-> "return", text |-> text]

\* str(KeyError(key))
KeyError(key) == Raise("'" \o key \o "'")

\* the arguments[key] subscripts a branch evaluates before its client call,
\* in evaluation order
Subscripts(name) ==
    CASE name = "search_pets_by_status" -> <<"status">>
      [] name = "search_pets_by_tags"   -> <<"tags">>
      [] name = "get_pet_by_id"         -> <<"pet_id">>
      [] name = "get_store_inventory"   -> <<"auth_token">>
      [] name = "get_order_by_id"       -> <<"order_id", "auth_token">>
      [] name = "place_order"           -> <<"pet_id", "auth_token">>
      [] name = "login_user"            -> <<"username", "password">>
      [] name = "get_user_profile"      -> <<"username", "auth_token">>
      [] name = "create_user"           -> <<"username", "password">>
      [] name = "add_pet"               -> <<"name", "auth_token">>

\* FirstMissing of a branch that reads its arguments with arguments.get
FirstMissing_Defaulting(name, arguments) == 0

\* the first subscript of the branch that raises KeyError, 0 when none does
FirstMissing(name, arguments) ==
    LET ks == Subscripts(name)
        missing == {i \in 1..Len(ks) : ~Has(arguments, ks[i])}
    IN  IF missing = {} THEN 0
        ELSE CHOOSE i \in missing : \A j \in missing : i <= j

\* user_data of the create_user branch (server.py 300-307)
UserData(arguments) ==
    D(<< <<"username", Get(arguments, "username", None)>>,
         <<"password", Get(arguments, "password", None)>>,
         <<"email", Get(arguments, "email", None)>>,
         <<"firstName", Get(arguments, "first_name", None)>>,
         <<"lastName", Get(arguments, "last_name", None)>>,
         <<"phone", Get(arguments, "phone", None)>> >>)

\* pet_data of the add_pet branch (server.py 315-321); tag_names is a list
PetData(arguments) ==
    LET tag_names == Get(arguments, "tag_names", L(<<>>))
    IN  D(<< <<"name", Get(arguments, "name", None)>>,
             <<"category", D(<< <<"name", Get(arguments, "category_name",
                                                S("Uncategorized"))>> >>)>>,
             <<"status", Get(arguments, "status", S("available"))>>,
             <<"photoUrls", Get(arguments, "photo_urls", L(<<>>))>>,
             <<"tags", L([i \in 1..Len(tag_names[2]) |->
                             D(<< <<"name", tag_names[2][i]>> >>)])>> >>)

\* UnknownTool that raises instead of returning the text
UnknownTool_Raises(name) == Raise("Unknown tool: " \o name)

\* the else branch of call_tool (server.py 328-329)
UnknownTool(name) == Ret(<<"Unknown tool: ", name>>)

\* a branch of call_tool up to the point where its client method returns
\* or suspends at the HTTP round trip
Dispatch(base, tmo, name, arguments) ==
    IF name \notin ToolNames THEN UnknownTool(name)
    ELSE IF /\ name = "add_pet"
            /\ Has(arguments, "name")
            /\ ~IsList(Get(arguments, "tag_names", L(<<>>)))
    THEN Raise("'" \o TypeName(Get(arguments, "tag_names", L(<<>>)))
               \o "' object is not iterable")
    ELSE IF FirstMissing(name, arguments) # 0
    THEN KeyError(Subscripts(name)[FirstMissing(name, arguments)])
    ELSE CASE name = "search_pets_by_status" ->
                search_pets_by_status(base, tmo, Get(arguments, "status", None), None)
           [] name = "search_pets_by_tags" ->
                search_pets_by_tags(base, tmo, Get(arguments, "tags", None), None)
           [] name = "get_pet_by_id" ->
                get_pet_by_id(base, tmo, Get(arguments, "pet_id", None), None)
           [] name = "get_store_inventory" ->
                get_store_inventory(base, tmo, Get(arguments, "auth_token", None))
           [] name = "get_order_by_id" ->
                get_order_by_id(base, tmo, Get(arguments, "order_id", None),
                                Get(arguments, "auth_token", None))
           [] name = "place_order" ->
                place_order(base, tmo, Get(arguments, "pet_id", None),
                            Get(arguments, "auth_token", None),
                            Get(arguments, "ship_date", None))
           [] name = "login_user" ->
                login_user(base, tmo, Get(arguments, "username", None),
                           Get(arguments, "password", None))
           [] name = "get_user_profile" ->
                get_user_profile(base, tmo, Get(arguments, "username", None),
                                 Get(arguments, "auth_token", None))
           [] name = "create_user" ->
                create_user(base, tmo, UserData(arguments))
           [] name = "add_pet" ->
                add_pet(base, tmo, PetData(arguments),
                        Get(arguments, "auth_token", None))

\* len(v)
PyLen(v) ==
    IF IsList(v) \/ IsDict(v) THEN Val(Len(v[2]))
    ELSE Raise("object of type '" \o TypeName(v) \o "' has no len()")

RECURSIVE InventoryLines(_)
\* "\\n".join([f"{status}: {count} pets" for status, count in result.items()])
InventoryLines(items) ==
    IF Len(items) = 0 THEN <<>>
    ELSE <<items[1][1], ": ", PyStr(items[1][2]), " pets">>
         \o (IF Len(items) = 1 THEN <<>> ELSE <<"\\n">> \o InventoryLines(Tail(items)))

\* header + formatted, or the formatter's exception
Prefixed(header, formatted) ==
    IF IsRaise(formatted) THEN formatted ELSE Val(header \o formatted.v)

\* the rest of a branch of call_tool, from the client method's result on
Render(name, arguments, result) ==
    CASE name = "search_pets_by_status" ->
            LET n == PyLen(result)
            IN  IF IsRaise(n) THEN n
                ELSE Prefixed(<<"Found ", ToString(n.v), " pets with status '",
                                PyStr(Get(arguments, "status", None)), "':\\n">>,
                              format_pets_list(result))
      [] name = "search_pets_by_tags" ->
            LET n == PyLen(result)
            IN  IF IsRaise(n) THEN n
                ELSE Prefixed(<<"Found ", ToString(n.v), " pets with tags ",
                                PyStr(Get(arguments, "tags", None)), ":\\n">>,
                              format_pets_list(result))
      [] name = "get_pet_by_id" ->
            IF Truthy(result)
            THEN Prefixed(<<"Pet Details:\\n">>, format_pet_details(result))
            ELSE Val(<<"Pet not found">>)
      [] name = "get_store_inventory" ->
            IF Truthy(result)
            THEN IF ~IsDict(result)
                 THEN Raise("'" \o TypeName(result) \o "' object has no attribute 'items'")
                 ELSE Val(<<"Store Inventory:\\n">> \o InventoryLines(result[2]))
            ELSE Val(<<"Failed to retrieve inventory">>)
      [] name = "get_order_by_id" ->
            IF Truthy(result)
            THEN Prefixed(<<"Order Details:\\n">>, format_order_details(result))
            ELSE Val(<<"Order not found or access denied">>)
      [] name = "place_order" ->
            IF Truthy(result)
            THEN Prefixed(<<"Order placed successfully:\\n">>, format_order_details(result))
            ELSE Val(<<"Failed to place order">>)
      [] name = "login_user" ->
            IF ~Truthy(result) THEN Val(<<"Login failed - invalid credentials">>)
            ELSE IF IsDict(result)
            THEN IF Has(result, "token")
                 THEN Val(<<"Login successful! Token: ",
                            PyStr(Get(result, "token", None))>>)
                 ELSE Val(<<"Login failed - invalid credentials">>)
            ELSE IF IsList(result)
            THEN IF \E i \in 1..Len(result[2]) : result[2][i] = S("token")
                 THEN Raise("list indices must be integers or slices, not str")
                 ELSE Val(<<"Login failed - invalid credentials">>)
            ELSE Raise("argument of type '" \o TypeName(result) \o "' is not iterable")
      [] name = "get_user_profile" ->
            IF Truthy(result)
            THEN Prefixed(<<"User Profile:\\n">>, format_user_details(result))
            ELSE Val(<<"User not found or access denied">>)
      [] name = "create_user" ->
            IF Truthy(result)
            THEN Prefixed(<<"User created successfully:\\n">>, format_user_details(result))
            ELSE Val(<<"Failed to create user">>)
      [] name = "add_pet" ->
            IF Truthy(result)
            THEN Prefixed(<<"Pet added successfully:\\n">>, format_pet_details(result))
            ELSE Val(<<"Failed to add pet">>)

\* ExceptHandler with an except clause that does not cover the exception
ExceptHandler_Escapes(o) ==
    IF IsRaise(o) THEN o ELSE Ret(o.v)

\* the try/except of call_tool around a finished branch (server.py 242, 331-332):
\* a value is returned as the text, an exception as "Error: <message>"
ExceptHandler(o) ==
    IF IsRaise(o) THEN Ret(<<"Error: ", o.msg>>) ELSE Ret(o.v)

\* call_tool from its entry to its return or to its suspension
call_tool_enter(base, tmo, name, arguments) ==
    LET d == Dispatch(base, tmo, name, arguments)
    IN  CASE d.k = "return" -> d
          [] d.k = "raise"  -> ExceptHandler(d)
          [] d.k = "value"  -> ExceptHandler(Render(name, arguments, d.v))
          [] d.k = "await"  -> d

\* the method's "result or []" where it has one
OrEmpty(orEmpty, result) ==
    IF orEmpty /\ ~Truthy(result) THEN L(<<>>) ELSE result

\* call_tool from the completion of the HTTP round trip to its return
call_tool_resume(name, arguments, orEmpty, answer) ==
    ExceptHandler(Render(name, arguments, OrEmpty(orEmpty, make_request_result(answer))))

(***************************************************************************)
(* Inputs: argument bags of the callers and answers of the remote service  *)
(***************************************************************************)
RECURSIVE Bags(_)
\* every dict that has, for each <<key, values>> of props in order, either
\* no entry or one of the values
Bags(props) ==
    IF Len(props) = 0 THEN {<<>>}
    ELSE LET rest == Bags(Tail(props))
         IN  rest \cup {<< <<props[1][1], v>> >> \o r : v \in props[1][2], r \in rest}

\* d without its key k
Without(d, k) == D(SelectSeq(d[2], LAMBDA p : p[1] # k))

\* d with null as the value of its key k
WithNull(d, k) == D([i \in 1..Len(d[2]) |->
                       IF d[2][i][1] = k THEN <<k, None>> ELSE d[2][i]])

\* d, and d with one of its keys missing or null
Variants(d) ==
    {d} \cup {Without(d, d[2][i][1]) : i \in 1..Len(d[2])}
        \cup {WithNull(d, d[2][i][1]) : i \in 1..Len(d[2])}

Tokens == {S(""), S("tok")}

PetIds == {I(n) : n \in 1..MaxPetId}

TagNames(n) == [i \in 1..n |-> S("tag" \o ToString(i))]

TagObjects(n) == [i \in 1..n |-> D(<< <<"name", S("tag" \o ToString(i))>> >>)]

ShipDate == S("2025-01-01T00:00:00Z")

\* the argument bags a caller sends for an operation name
ArgumentBags(name) ==
    {D(b) : b \in Bags(
        CASE name = "search_pets_by_status" ->
                << <<"status", {S("available"), S("sold")}>>, <<"auth_token", {S("tok")}>> >>
          [] name = "search_pets_by_tags" ->
                << <<"tags", {L(TagNames(n)) : n \in 0..MaxTags}>>,
                   <<"auth_token", {S("tok")}>> >>
          [] name = "get_pet_by_id" ->
                << <<"pet_id", PetIds>>, <<"auth_token", {S("tok")}>> >>
          [] name = "get_store_inventory" ->
                << <<"auth_token", Tokens>> >>
          [] name = "get_order_by_id" ->
                << <<"order_id", {I(7)}>>, <<"auth_token", Tokens>> >>
          [] name = "place_order" ->
                << <<"pet_id", PetIds>>, <<"ship_date", {None, S(""), ShipDate}>>,
                   <<"auth_token", Tokens>> >>
          [] name = "login_user" ->
                << <<"username", {S("alice")}>>, <<"password", {S("secret")}>> >>
          [] name = "get_user_profile" ->
                << <<"username", {S("alice")}>>, <<"auth_token", Tokens>> >>
          [] name = "create_user" ->
                << <<"username", {S("alice")}>>, <<"password", {S("secret")}>>,
                   <<"email", {S("a@x.org")}>>, <<"first_name", {S("Al")}>>,
                   <<"last_name", {S("Ice")}>>, <<"phone", {S("555")}>> >>
          [] name = "add_pet" ->
                << <<"name", {S("Rex")}>>, <<"category_name", {S("Dogs")}>>,
                   <<"status", {S("sold")}>>, <<"photo_urls", {L(<<S("u1")>>)}>>,
                   <<"tag_names", {None} \cup {L(TagNames(n)) : n \in 0..MaxTags}>>,
                   <<"auth_token", {S("tok")}>> >>
          [] OTHER ->
                << <<"status", {S("available")}>>, <<"auth_token", {S("tok")}>> >>)}

UnknownNames == {"nonexistent_tool", ""}

CallNames == ToolNames \cup UnknownNames

BasePet(n) ==
    D(<< <<"id", I(1)>>, <<"name", S("Rex")>>,
         <<"category", D(<< <<"id", I(1)>>, <<"name", S("Dogs")>> >>)>>,
         <<"photoUrls", L(<<S("u1")>>)>>,
         <<"tags", L(TagObjects(n))>>,
         <<"status", S("available")>> >>)

BaseOrder ==
    D(<< <<"id", I(7)>>, <<"petId", I(1)>>, <<"quantity", I(1)>>,
         <<"shipDate", ShipDate>>, <<"status", S("placed")>>,
         <<"complete", B(FALSE)>> >>)

BaseUser ==
    D(<< <<"username", S("alice")>>, <<"firstName", S("Al")>>,
         <<"lastName", S("Ice")>>, <<"email", S("a@x.org")>>,
         <<"phone", S("555")>>, <<"role", S("admin")>>,
         <<"userStatus", I(2)>> >>)

BaseInventory == D(<< <<"available", I(3)>>, <<"sold", I(1)>> >>)

BaseToken == D(<< <<"token", S("jwt")>>, <<"expiresIn", I(3600)>> >>)

\* the payload the remote service sends for a well-formed request
BasePayload(name) ==
    CASE name \in {"search_pets_by_status", "search_pets_by_tags"} -> L(<<BasePet(1)>>)
      [] name \in {"get_pet_by_id", "add_pet"}                     -> BasePet(1)
      [] name = "get_store_inventory"                              -> BaseInventory
      [] name \in {"get_order_by_id", "place_order"}               -> BaseOrder
      [] name = "login_user"                                       -> BaseToken
      [] name \in {"get_user_profile", "create_user"}              -> BaseUser
      [] OTHER                                                     -> D(<<>>)

\* bodies no operation expects
OddBodies == {Malformed, D(<<>>), L(<<>>), L(<<S("token")>>), I(5)}

\* the JSON bodies of 200 answers to an operation's request
Bodies(name) ==
    OddBodies \cup
    CASE name \in {"search_pets_by_status", "search_pets_by_tags"} ->
            {L(<<BasePet(1)>>), L(<<BasePet(0), WithNull(BasePet(1), "tags")>>)}
      [] name \in {"get_pet_by_id", "add_pet"} ->
            UNION {Variants(BasePet(n)) : n \in 0..MaxTags}
              \cup {WithNull(BasePet(1), "category")}
      [] name = "get_store_inventory" -> {BaseInventory}
      [] name \in {"get_order_by_id", "place_order"} -> Variants(BaseOrder)
      [] name = "login_user" -> Variants(BaseToken)
      [] name \in {"get_user_profile", "create_user"} -> Variants(BaseUser)
      [] OTHER -> {}

\* answers that are not a 200/201 with a body
FailureAnswers == {Response(404, None), Response(500, None), Response(401, None),
                   Fault("connect"), Fault("timeout")}

\* what the remote service may answer to the request of an operation
Answers(name) ==
    {Response(200, b) : b \in Bodies(name)}
      \cup {Response(201, BasePayload(name))} \cup FailureAnswers

\* the arguments a descriptor marks as required, with well-typed values
RequiredArguments(name) ==
    D([i \in 1..Len(Required(name)) |->
         <<Required(name)[i],
           CASE Required(name)[i] = "status"     -> S("available")
             [] Required(name)[i] = "tags"       -> L(TagNames(1))
             [] Required(name)[i] = "pet_id"     -> I(1)
             [] Required(name)[i] = "order_id"   -> I(7)
             [] Required(name)[i] = "auth_token" -> S("tok")
             [] Required(name)[i] = "username"   -> S("alice")
             [] Required(name)[i] = "password"   -> S("secret")
             [] Required(name)[i] = "name"       -> S("Rex")>>])

\* the required arguments of a name, and the same with one of them missing
CoreArgumentBags(name) ==
    {RequiredArguments(name)} \cup
    {Without(RequiredArguments(name), Required(name)[i]) : i \in 1..Len(Required(name))}

\* the inputs of the concurrent specification: for every name the required
\* arguments, and for place_order also the bag without its auth_token
ConcArgumentBags(name) ==
    IF name = "place_order"
    THEN {RequiredArguments(name),
          D(SubSeq(RequiredArguments(name)[2], 1, Len(Required(name)) - 1))}
    ELSE {RequiredArguments(name)}

ConcNames == ToolNames

ConcAnswers(name) ==
    {Response(200, BasePayload(name)), Response(404, None), Response(500, None),
     Fault("timeout")}

(***************************************************************************)
(* State                                                                   *)
(***************************************************************************)
DefaultTimeout == 30

LocalBaseUrl == "http://localhost:3002"

ProductionBaseUrl == "https://api.petstore.example.com"

Idle == [pc |-> "idle", name |-> "", arguments |-> D(<<>>), backend |-> Fault("none"),
         requests |-> <<>>, orEmpty |-> FALSE, response |-> <<>>, escaped |-> FALSE]

\* PetstoreClient.__init__ (client.py 15-25) and a transport with no call yet
InitConfig ==
    /\ base_url \in {LocalBaseUrl, ProductionBaseUrl}
    /\ timeout = DefaultTimeout

Init ==
    /\ InitConfig
    /\ calls = [c \in {1} |-> Idle]

\* NumCalls interleaved calls of a server started with APP_ENV=local
ConcInit ==
    /\ base_url = LocalBaseUrl
    /\ timeout = DefaultTimeout
    /\ calls = [c \in 1..NumCalls |-> Idle]

\* the call as call_tool leaves it: returned one text, or an exception escaped
Finished(call, o) ==
    [call EXCEPT !.pc = "done",
                 !.response = IF o.k = "return" THEN <<o.text>> ELSE <<>>,
                 !.escaped = (o.k # "return")]

\* the transport invokes call_tool(name, arguments); it runs until it returns
\* or suspends at the HTTP round trip.  answer is what the remote service
\* answers to this call's request.
Invoke(c, name, arguments, answer) ==
    /\ calls[c].pc = "idle"
    /\ LET o == call_tool_enter(base_url, timeout, name, arguments)
           call == [Idle EXCEPT !.name = name, !.arguments = arguments,
                                !.backend = answer]
       IN  calls' = [calls EXCEPT ![c] =
                IF o.k = "await"
                THEN [call EXCEPT !.pc = "awaiting", !.requests = <<o.req>>,
                                  !.orEmpty = o.orEmpty]
                ELSE Finished(call, o)]
    /\ UNCHANGED <<base_url, timeout>>

\* HttpComplete with one response buffer shared by all calls: every call
\* reads the answer kept for call 1
HttpComplete_SharedBuffer(c) ==
    /\ calls[c].pc = "awaiting"
    /\ calls' = [calls EXCEPT ![c] =
            Finished(calls[c], call_tool_resume(calls[c].name, calls[c].arguments,
                                                calls[c].orEmpty, calls[1].backend))]
    /\ UNCHANGED <<base_url, timeout>>

\* the HTTP round trip of call c completes and call_tool runs to its return
HttpComplete(c) ==
    /\ calls[c].pc = "awaiting"
    /\ calls' = [calls EXCEPT ![c] =
            Finished(calls[c], call_tool_resume(calls[c].name, calls[c].arguments,
                                                calls[c].orEmpty, calls[c].backend))]
    /\ UNCHANGED <<base_url, timeout>>

\* the transport sends the response of call c to the caller
Deliver(c) ==
    /\ calls[c].pc = "done"
    /\ calls' = [calls EXCEPT ![c] = Idle]
    /\ UNCHANGED <<base_url, timeout>>

Next ==
    \E c \in DOMAIN calls :
        \/ /\ calls[c].pc = "idle"
           /\ \E name \in CallNames : \E arguments \in ArgumentBags(name) :
                \E answer \in Answers(name) : Invoke(c, name, arguments, answer)
        \/ HttpComplete(c)
        \/ Deliver(c)

ConcNext ==
    \E c \in DOMAIN calls :
        \/ /\ calls[c].pc = "idle"
           /\ \E name \in ConcNames : \E arguments \in ConcArgumentBags(name) :
                \E answer \in ConcAnswers(name) : Invoke(c, name, arguments, answer)
        \/ HttpComplete(c)
        \/ Deliver(c)

Spec == Init /\ [][Next]_vars

\* one call at a time with the core argument bags and every answer; the
\* round trip is bounded by the timeout, so a suspended call resumes
FairNext ==
    \E c \in DOMAIN calls :
        \/ /\ calls[c].pc = "idle"
           /\ \E name \in CallNames : \E arguments \in CoreArgumentBags(name) :
                \E answer \in Answers(name) : Invoke(c, name, arguments, answer)
        \/ HttpComplete(c)
        \/ Deliver(c)

\* one call at a time on a server started with APP_ENV=local
FairInit ==
    /\ base_url = LocalBaseUrl
    /\ timeout = DefaultTimeout
    /\ calls = [c \in {1} |-> Idle]

FairSpec == FairInit /\ [][FairNext]_vars /\ \A c \in {1} : WF_vars(HttpComplete(c))

ConcSpec == ConcInit /\ [][ConcNext]_vars

TypeOK ==
    /\ base_url \in {LocalBaseUrl, ProductionBaseUrl}
    /\ timeout = DefaultTimeout
    /\ \A c \in DOMAIN calls :
          /\ calls[c].pc \in {"idle", "awaiting", "done"}
          /\ Len(calls[c].requests) <= 1

(***************************************************************************)
(* Properties                                                              *)
(***************************************************************************)
IsDone(c) == calls[c].pc = "done"

\* the text of the response of a finished call
Text(c) == calls[c].response[1]

\* the call sent its HTTP request
Sent(c) == Len(calls[c].requests) = 1

HasAll(arguments, keys) == \A i \in 1..Len(keys) : Has(arguments, keys[i])

\* C1: every call_tool call, whatever its name, arguments and the outcome of
\* its HTTP round trip, returns exactly one non-empty text and lets no
\* exception escape; a call suspended at the round trip does return.
C1_OneResponse ==
    /\ [](\A c \in DOMAIN calls :
            /\ IsDone(c) => /\ Len(calls[c].response) = 1
                            /\ Len(Text(c)) > 0
                            /\ ~calls[c].escaped
            /\ ~IsDone(c) => /\ Len(calls[c].response) = 0
                             /\ ~calls[c].escaped)
    /\ \A c \in {1} : (calls[c].pc = "awaiting") ~> IsDone(c)

\* a call whose round trip ended in a transport fault has returned its text
C1_Witness ==
    \E c \in DOMAIN calls :
        /\ IsDone(c) /\ Sent(c)
        /\ calls[c].backend.kind = "fault"
        /\ Len(calls[c].response) = 1

\* an answer that is neither a 200/201 nor a 404
IsServerFault(answer) ==
    \/ answer.kind = "fault"
    \/ answer.kind = "response" /\ answer.status \notin {200, 201, 404}

\* C2: for each operation and the same arguments, the text returned when the
\* backend faults (500, other status, transport fault, timeout) is the text
\* returned when it answers 404.
C2_FaultLikeNotFound ==
    \A c1, c2 \in DOMAIN calls :
        ( /\ IsDone(c1) /\ IsDone(c2)
          /\ calls[c1].name \in CatalogNames
          /\ calls[c1].name = calls[c2].name
          /\ calls[c1].arguments = calls[c2].arguments
          /\ calls[c1].backend = Response(404, None)
          /\ IsServerFault(calls[c2].backend) )
        => calls[c1].response = calls[c2].response

\* the same operation answered 404 for one call and 500 for another, both
\* requests sent
C2_Witness ==
    \E c1, c2 \in DOMAIN calls :
        /\ IsDone(c1) /\ IsDone(c2) /\ Sent(c1) /\ Sent(c2)
        /\ calls[c1].name = calls[c2].name
        /\ calls[c1].arguments = calls[c2].arguments
        /\ calls[c1].backend = Response(404, None)
        /\ calls[c2].backend = Response(500, None)
        /\ calls[c1].response = calls[c2].response

\* a string the rendering of the operation's payload has as a segment
RenderedField(name) ==
    CASE name \in {"search_pets_by_status", "search_pets_by_tags",
                   "get_pet_by_id", "add_pet"}                -> "Rex"
      [] name = "get_store_inventory"                         -> "available"
      [] name \in {"get_order_by_id", "place_order"}          -> "placed"
      [] name = "login_user"                                  -> "jwt"
      [] name \in {"get_user_profile", "create_user"}         -> "alice"

\* C3: for every descriptor of list_tools, a call with exactly the required
\* arguments against a backend answering 200 with a valid payload returns a
\* text with the rendered fields of the payload.
C3_SuccessRendering ==
    \A c \in DOMAIN calls :
        ( /\ IsDone(c)
          /\ calls[c].name \in CatalogNames
          /\ calls[c].arguments = RequiredArguments(calls[c].name)
          /\ calls[c].backend = Response(200, BasePayload(calls[c].name)) )
        => /\ Len(calls[c].response) = 1
           /\ \E i \in 1..Len(Text(c)) : Text(c)[i] = RenderedField(calls[c].name)

\* C4: a call that lacks an argument its descriptor requires ends with the
\* text "Error: <message>" and sends no HTTP request.
C4_MissingRequired ==
    \A c \in DOMAIN calls :
        ( /\ calls[c].pc # "idle"
          /\ calls[c].name \in CatalogNames
          /\ ~HasAll(calls[c].arguments, Required(calls[c].name)) )
        => /\ IsDone(c)
           /\ ~Sent(c)
           /\ Len(calls[c].response) = 1
           /\ Len(Text(c)) = 2
           /\ Text(c)[1] = "Error: "

\* place_order without its auth_token was rejected with the KeyError text
C4_Witness ==
    \E c \in DOMAIN calls :
        /\ IsDone(c)
        /\ calls[c].name = "place_order"
        /\ Has(calls[c].arguments, "pet_id")
        /\ ~Has(calls[c].arguments, "auth_token")
        /\ ~Sent(c)
        /\ Flat(Text(c)) = "Error: 'auth_token'"

C6_WithPeriod ==
    \A c \in DOMAIN calls :
        ( /\ IsDone(c)
          /\ calls[c].name = "get_pet_by_id"
          /\ Has(calls[c].arguments, "pet_id")
          /\ calls[c].backend = Response(404, None) )
        => /\ Len(calls[c].response) = 1
           /\ Flat(Text(c)) = "Pet not found."

\* C6 amended: get_pet_by_id against a backend that answers 404 returns
\* exactly "Pet not found", without a final period.
C6_NoPeriod ==
    \A c \in DOMAIN calls :
        ( /\ IsDone(c)
          /\ calls[c].name = "get_pet_by_id"
          /\ Has(calls[c].arguments, "pet_id")
          /\ calls[c].backend = Response(404, None) )
        => /\ Len(calls[c].response) = 1
           /\ Flat(Text(c)) = "Pet not found"

C6_Witness ==
    \E c \in DOMAIN calls :
        /\ IsDone(c)
        /\ calls[c].name = "get_pet_by_id"
        /\ calls[c].arguments = D(<< <<"pet_id", I(MaxPetId)>> >>)
        /\ calls[c].backend = Response(404, None)
        /\ Text(c) = <<"Pet not found">>

\* the JSON body of the request of call c
Body(c) == calls[c].requests[1].json

\* the place_order request of call c is POST /store/order with the four
\* fixed fields, and shipDate, when present, is the caller's ship_date
OrderRequestShape(c) ==
    /\ Sent(c)
    /\ calls[c].requests[1].method = "POST"
    /\ calls[c].requests[1].url = base_url \o "/api/v3/store/order"
    /\ IsDict(Body(c))
    /\ Get(Body(c), "petId", None) = Get(calls[c].arguments, "pet_id", None)
    /\ Get(Body(c), "quantity", None) = I(1)
    /\ Get(Body(c), "status", None) = S("placed")
    /\ Get(Body(c), "complete", None) = B(FALSE)
    /\ Len(Body(c)[2]) = IF Has(Body(c), "shipDate") THEN 5 ELSE 4
    /\ Has(Body(c), "shipDate") =>
          /\ Get(Body(c), "shipDate", None) = Get(calls[c].arguments, "ship_date", None)
          /\ Get(Body(c), "shipDate", None) # None

IsPlaceOrder(c) ==
    /\ calls[c].pc # "idle"
    /\ calls[c].name = "place_order"
    /\ HasAll(calls[c].arguments, Required("place_order"))

\* C7 as stated: the body of POST /store/order has the four fixed fields and
\* has a shipDate key exactly when the caller supplied ship_date (a null
\* ship_date is read as not supplied).
C7_ShipDateIffSupplied ==
    \A c \in DOMAIN calls :
        IsPlaceOrder(c) =>
            /\ OrderRequestShape(c)
            /\ Has(Body(c), "shipDate") <=>
                  /\ Has(calls[c].arguments, "ship_date")
                  /\ Get(calls[c].arguments, "ship_date", None) # None

\* C7 amended: the body has a shipDate key exactly when the caller supplied
\* a ship_date that is neither null nor the empty string.
C7_ShipDateIffTruthy ==
    \A c \in DOMAIN calls :
        IsPlaceOrder(c) =>
            /\ OrderRequestShape(c)
            /\ Has(Body(c), "shipDate") <=>
                  /\ Has(calls[c].arguments, "ship_date")
                  /\ Truthy(Get(calls[c].arguments, "ship_date", None))

\* an order was placed with a ship date, which is in the body verbatim
C7_Witness ==
    \E c \in DOMAIN calls :
        /\ IsPlaceOrder(c)
        /\ Get(calls[c].arguments, "ship_date", None) = ShipDate
        /\ Get(Body(c), "shipDate", None) = S("2025-01-01T00:00:00Z")
        /\ Get(Body(c), "petId", None) = I(MaxPetId)

\* C8: a name outside the catalog gets the text "Unknown tool: <name>" and
\* no HTTP request, whatever the arguments.
C8_UnknownTool ==
    \A c \in DOMAIN calls :
        ( /\ calls[c].pc # "idle"
          /\ calls[c].name \notin CatalogNames )
        => /\ IsDone(c)
           /\ ~Sent(c)
           /\ Len(calls[c].response) = 1
           /\ Flat(Text(c)) = "Unknown tool: " \o calls[c].name

C8_Witness ==
    \E c \in DOMAIN calls :
        /\ IsDone(c)
        /\ calls[c].name = "nonexistent_tool"
        /\ Truthy(calls[c].arguments)
        /\ Text(c) = <<"Unknown tool: ", "nonexistent_tool">>

\* C9: calls with the same name, arguments and backend answer end with the
\* same requests and the same response, whatever the other calls did before
\* or meanwhile; a step of one call changes no other call; base_url and
\* timeout never change.
C9_Independent ==
    /\ [](\A c1, c2 \in DOMAIN calls :
            ( /\ IsDone(c1) /\ IsDone(c2)
              /\ calls[c1].name = calls[c2].name
              /\ calls[c1].arguments = calls[c2].arguments
              /\ calls[c1].backend = calls[c2].backend )
            => /\ calls[c1].response = calls[c2].response
               /\ calls[c1].requests = calls[c2].requests
               /\ calls[c1].escaped = calls[c2].escaped)
    /\ [][ /\ base_url' = base_url
           /\ timeout' = timeout
           /\ \A c1, c2 \in DOMAIN calls :
                 (c1 # c2 /\ calls'[c1] # calls[c1]) => calls'[c2] = calls[c2] ]_vars

\* a call whose request got a 500 has ended, and another call, to the same
\* operation with the same arguments, has ended with the rendered payload
C9_Witness ==
    \E c1, c2 \in DOMAIN calls :
        /\ c1 # c2
        /\ IsDone(c1) /\ IsDone(c2) /\ Sent(c1) /\ Sent(c2)
        /\ calls[c1].name = calls[c2].name
        /\ calls[c1].backend = Response(500, None)
        /\ calls[c2].backend = Response(200, BasePayload(calls[c2].name))
        /\ \E i \in 1..Len(Text(c2)) : Text(c2)[i] = RenderedField(calls[c2].name)

MissingOrNull(d, k) == ~Has(d, k) \/ Get(d, k, None) = None

\* the segment of a text that follows the segment label
Field(text, label) ==
    text[(CHOOSE i \in 1..Len(text) : text[i] = label) + 1]

\* C10: a payload field that is missing or null is rendered with its
\* default, and the formatting does not fail: category "Unknown", tags and
\* photoUrls "None", shipDate "Not set", email and phone "Not provided",
\* role "customer", userStatus 1.
C10_DefaultsForMissingOrNull ==
    \A c \in DOMAIN calls :
        ( /\ IsDone(c) /\ Sent(c)
          /\ calls[c].name \in {"add_pet", "get_order_by_id", "place_order",
                                "get_user_profile", "create_user"}
          /\ calls[c].backend.kind = "response"
          /\ calls[c].backend.status = 200
          /\ IsDict(calls[c].backend.body)
          /\ Truthy(calls[c].backend.body) )
        => LET body == calls[c].backend.body
               Default(k, label, dflt) ==
                   MissingOrNull(body, k) => Field(Text(c), label) = dflt
           IN  /\ Text(c)[1] # "Error: "
               /\ calls[c].name = "add_pet" =>
                     /\ Default("category", "\nCategory: ", "Unknown")
                     /\ Default("tags", "\nTags: ", "None")
                     /\ Default("photoUrls", "\nPhotos: ", "None")
               /\ calls[c].name \in {"get_order_by_id", "place_order"} =>
                     Default("shipDate", "\nShip Date: ", "Not set")
               /\ calls[c].name \in {"get_user_profile", "create_user"} =>
                     /\ Default("email", "\nEmail: ", "Not provided")
                     /\ Default("phone", "\nPhone: ", "Not provided")
                     /\ Default("role", "\nRole: ", "customer")
                     /\ Default("userStatus", "\nStatus: ", "1")

\* the three operations call_tool calls without a token
AnonymousTools == {"search_pets_by_status", "search_pets_by_tags", "get_pet_by_id"}

\* the text of call c is the anonymous result of its operation: the empty
\* pet list for a search, the not-found text for get_pet_by_id
AnonymousResult(c) ==
    /\ Len(calls[c].response) = 1
    /\ calls[c].name = "get_pet_by_id" => Text(c) = <<"Pet not found">>
    /\ calls[c].name # "get_pet_by_id" =>
          /\ Text(c)[1] = "Found "
          /\ Text(c)[2] = "0"
          /\ Text(c)[Len(Text(c))] = "No pets found."

\* C11 as stated: for every argument bag, also one with an auth_token entry,
\* and every backend answer, a call of the two searches or of get_pet_by_id
\* sends no HTTP request and returns the anonymous result.
C11_AlwaysAnonymous ==
    \A c \in DOMAIN calls :
        (calls[c].pc # "idle" /\ calls[c].name \in AnonymousTools)
        => /\ IsDone(c)
           /\ ~Sent(c)
           /\ AnonymousResult(c)

\* C11 amended: such a call never sends an HTTP request; it returns the
\* anonymous result when the bag has the operation's required argument, and
\* the boundary error "Error: '<key>'" when it has not.
C11_NoRequestAnonymousOrError ==
    \A c \in DOMAIN calls :
        (calls[c].pc # "idle" /\ calls[c].name \in AnonymousTools)
        => /\ IsDone(c)
           /\ ~Sent(c)
           /\ HasAll(calls[c].arguments, Required(calls[c].name)) => AnonymousResult(c)
           /\ ~HasAll(calls[c].arguments, Required(calls[c].name)) =>
                 Text(c) = <<"Error: ", "'" \o Required(calls[c].name)[1] \o "'">>

\* a status search whose bag carries an auth_token, against a backend that
\* would answer with a pet, has ended without a request and with no pets
C11_Witness ==
    \E c \in DOMAIN calls :
        /\ IsDone(c)
        /\ calls[c].name = "search_pets_by_status"
        /\ Get(calls[c].arguments, "auth_token", None) = S("tok")
        /\ Has(calls[c].arguments, "status")
        /\ calls[c].backend = Response(200, L(<<BasePet(1)>>))
        /\ ~Sent(c)
        /\ Text(c)[Len(Text(c))] = "No pets found."

====
